---------------------------- MODULE Spec2Model ----------------------------
(***************************************************************************)
(* A model of the Volatility Market Making Game: the Market process        *)
(* (market.py), the challenge catalog (challenges.py), the quoting         *)
(* strategy and its lookup by name (market_maker.py, main.py) and the      *)
(* day loop with its trade simulation, P&L and score (game.py).            *)
(*                                                                         *)
(* Python floats are modelled as exact rationals <<n, d>> in lowest terms  *)
(* with d > 0.  NaN, the infinities and the rounding of IEEE doubles are   *)
(* not modelled; math.exp is tabulated on the returns the model draws.     *)
(***************************************************************************)
EXTENDS Integers, Sequences, FiniteSets

VARIABLES
    price,            \* Market.state.price
    volatility,       \* Market.state.volatility
    mday,             \* Market.day
    daily_return,     \* Market.update: the return drawn by random.gauss
    price_factor,     \* Market.apply_challenge: argument of the last call
    volatility_factor,\* Market.apply_challenge: argument of the last call
    calls,            \* number of Market.apply_challenge calls made by the caller
    pc,               \* the statement main / Game.run / Game.simulate_day executes next
    days,             \* Game.days
    day,              \* Game.run: the loop variable
    total_pnl,        \* Game.total_pnl
    daily_results,    \* Game.daily_results, the DayRecord log
    score,            \* the value Game.run returns (NoScore before)
    score_calls,      \* number of calculate_score calls
    ch_price,         \* ChallengeManager.apply_challenge: argument price
    ch_volatility,    \* ChallengeManager.apply_challenge: argument volatility
    new_price,        \* Game.simulate_day: local
    new_volatility,   \* Game.simulate_day: local
    challenge,        \* Game.simulate_day: local, the challenge's name
    bid,              \* Game.simulate_day: local
    ask,              \* Game.simulate_day: local
    trades,           \* Game.simulate_day: local
    market_price,     \* Game.simulate_trades: local, the price the trades were generated at
    daily_pnl,        \* Game.simulate_day: local
    class_name,       \* main: args.market_maker
    market_maker_class, \* main: MarketMakerClass
    market_maker,     \* Game.market_maker: the class of the instance (NoObject before)
    spread_multiplier \* SimpleMarketMaker.spread_multiplier

(***************************************************************************)
(* Rational arithmetic.                                                    *)
(***************************************************************************)
Abs(x) == IF x < 0 THEN -x ELSE x

RECURSIVE GCD(_, _)
GCD(a, b) == IF b = 0 THEN a ELSE GCD(b, a % b)

\* n/d in lowest terms with a positive denominator (d # 0)
Rat(n, d) ==
    LET g == GCD(Abs(n), Abs(d))
        s == IF d < 0 THEN -1 ELSE 1
    IN  <<(s * n) \div g, (s * d) \div g>>

RInt(n) == <<n, 1>>

ONE == <<1, 1>>

ZERO == <<0, 1>>

RMul(a, b) ==
    LET g1 == GCD(Abs(a[1]), b[2])
        g2 == GCD(Abs(b[1]), a[2])
    IN  <<(a[1] \div g1) * (b[1] \div g2), (a[2] \div g2) * (b[2] \div g1)>>

\* b # 0
RInv(b) == IF b[1] > 0 THEN <<b[2], b[1]>> ELSE <<-b[2], -b[1]>>

RDiv(a, b) == RMul(a, RInv(b))

RAdd(a, b) ==
    LET g == GCD(a[2], b[2])
    IN  Rat(a[1] * (b[2] \div g) + b[1] * (a[2] \div g), (a[2] \div g) * b[2])

RNeg(a) == <<-a[1], a[2]>>

RSub(a, b) == RAdd(a, RNeg(b))

\* the sign of n1/d1 - n2/d2 for non-negative fractions, by their continued
\* fractions: no product is formed, so nothing exceeds the integers TLC has
RECURSIVE CmpPos(_, _, _, _)
CmpPos(n1, d1, n2, d2) ==
    LET q1 == n1 \div d1
        q2 == n2 \div d2
        r1 == n1 % d1
        r2 == n2 % d2
    IN  IF q1 < q2 THEN -1
        ELSE IF q1 > q2 THEN 1
        ELSE IF r1 = 0 /\ r2 = 0 THEN 0
        ELSE IF r1 = 0 THEN -1
        ELSE IF r2 = 0 THEN 1
        ELSE CmpPos(d2, r2, d1, r1)

\* the sign of a - b
RCmp(a, b) ==
    IF a[1] < 0
    THEN (IF b[1] < 0 THEN CmpPos(-b[1], b[2], -a[1], a[2]) ELSE -1)
    ELSE (IF b[1] < 0 THEN 1 ELSE CmpPos(a[1], a[2], b[1], b[2]))

RLt(a, b) == RCmp(a, b) < 0

RLeq(a, b) == ~RLt(b, a)

\* Python's max(a, b): a unless b is greater; min(a, b): a unless b is smaller
PyMax(a, b) == IF RLt(a, b) THEN b ELSE a

PyMin(a, b) == IF RLt(b, a) THEN b ELSE a

\* x <= a * f, decided on x / a against f: the product itself may exceed the
\* integers TLC has
LeqProduct(x, a, f) ==
    IF a[1] = 0 THEN RLeq(x, a)
    ELSE IF a[1] > 0 THEN RLeq(RDiv(x, a), f)
    ELSE RLeq(f, RDiv(x, a))

\* a * f <= x, likewise
ProductLeq(a, f, x) ==
    IF a[1] = 0 THEN RLeq(a, x)
    ELSE IF a[1] > 0 THEN RLeq(f, RDiv(x, a))
    ELSE RLeq(RDiv(x, a), f)

marketVars == <<price, volatility, mday, daily_return, price_factor, volatility_factor>>

runVars == <<days, day, total_pnl, daily_results, score, score_calls>>

dayVars == <<ch_price, ch_volatility, new_price, new_volatility, challenge, bid, ask,
             trades, market_price, daily_pnl>>

makerVars == <<class_name, market_maker_class, market_maker, spread_multiplier>>

vars == <<marketVars, calls, pc, runVars, dayVars, makerVars>>

(***************************************************************************)
(* config.py                                                               *)
(***************************************************************************)
INITIAL_PRICE == <<100, 1>>

INITIAL_VOLATILITY == <<1, 50>>

(***************************************************************************)
(* market.py                                                               *)
(***************************************************************************)
PRICE_FLOOR == <<1, 100>>

VOLATILITY_FLOOR == <<1, 1000>>

FACTOR_MIN == <<1, 2>>

FACTOR_MAX == <<2, 1>>

\* math.exp raises OverflowError above about 709.78
EXP_OVERFLOW == 709

ExpOverflows(r) == RLt(RInt(EXP_OVERFLOW), r)

\* math.exp on the returns drawn, to one decimal; exp(-800) underflows to 0.0
math_exp(r) ==
    CASE r = <<0, 1>>    -> <<1, 1>>
      [] r = <<1, 10>>   -> <<11, 10>>
      [] r = <<-1, 10>>  -> <<9, 10>>
      [] r = <<1, 1>>    -> <<27, 10>>
      [] r = <<-1, 1>>   -> <<2, 5>>
      [] r = <<-800, 1>> -> <<0, 1>>

\* the factor without the clamp to [0.5, 2.0]
UpdateFactor_NoClamp(r) ==
    IF ExpOverflows(r)
    THEN FACTOR_MAX
    ELSE math_exp(r)

\* the factor Market.update multiplies the price by
UpdateFactor(r) ==
    IF ExpOverflows(r)
    THEN (IF RLt(RInt(0), r) THEN FACTOR_MAX ELSE FACTOR_MIN)
    ELSE PyMax(FACTOR_MIN, PyMin(FACTOR_MAX, math_exp(r)))

FloorPrice(p) == PyMax(PRICE_FLOOR, p)

\* apply_challenge without its volatility floor
FloorVolatility_Missing(v) == v

FloorVolatility(v) == PyMax(VOLATILITY_FLOOR, v)

\* Market.update: the state change
Market_update(r) ==
    /\ mday' = mday + 1
    /\ daily_return' = r
    /\ price' = FloorPrice(RMul(price, UpdateFactor(r)))
    /\ UNCHANGED <<volatility, price_factor, volatility_factor>>

\* Market.apply_challenge: the state change
Market_apply_challenge(price_factor_arg, volatility_factor_arg) ==
    /\ price' = FloorPrice(RMul(price, price_factor_arg))
    /\ volatility' = FloorVolatility(RMul(volatility, volatility_factor_arg))
    /\ price_factor' = price_factor_arg
    /\ volatility_factor' = volatility_factor_arg
    /\ UNCHANGED <<mday, daily_return>>

(***************************************************************************)
(* challenges.py                                                           *)
(***************************************************************************)
\* ChallengeManager.challenges: the names, in catalog order
Challenges == <<"Volatility Spike", "Market Crash", "Bull Run", "Calm Markets", "Economic News">>

\* values random.uniform(0.9, 1.1) and random.uniform(0.8, 1.2) may return
UniformPrice == {<<9, 10>>, <<11, 10>>}

UniformVolatility == {<<4, 5>>, <<6, 5>>}

\* Challenge.effect(p, v); u and w are the draws of Economic News
ChallengeEffect(name, p, v, u, w) ==
    CASE name = "Volatility Spike" -> <<p, RMul(v, <<2, 1>>)>>
      [] name = "Market Crash"     -> <<RMul(p, <<4, 5>>), RMul(v, <<3, 2>>)>>
      [] name = "Bull Run"         -> <<RMul(p, <<6, 5>>), RMul(v, <<6, 5>>)>>
      [] name = "Calm Markets"     -> <<p, RMul(v, <<1, 2>>)>>
      [] name = "Economic News"    -> <<RMul(p, u), RMul(v, w)>>

(***************************************************************************)
(* market_maker.py                                                         *)
(***************************************************************************)
DEFAULT_SPREAD_MULTIPLIER == <<1, 10>>

\* make_market without the floor of the bid
make_market_NoFloor(p, v, multiplier) ==
    LET spread == RMul(RMul(p, v), multiplier)
    IN  <<RSub(p, spread), RAdd(p, spread)>>

\* the quote with its two sides crossed: the bid above the price, the ask below
make_market_Crossed(p, v, multiplier) ==
    LET spread == RMul(RMul(p, v), multiplier)
    IN  <<RAdd(p, spread), PyMax(PRICE_FLOOR, RSub(p, spread))>>

\* SimpleMarketMaker.make_market
SimpleMarketMaker_make_market(p, v, multiplier) ==
    LET spread == RMul(RMul(p, v), multiplier)
    IN  <<PyMax(PRICE_FLOOR, RSub(p, spread)), RAdd(p, spread)>>

\* the names bound in the module market_maker (its globals())
ModuleGlobals ==
    {"ABC", "abstractmethod", "MarketMaker", "SimpleMarketMaker",
     "get_market_maker_class", "__name__", "__doc__"}

\* get_market_maker_class: the object globals()[class_name], SimpleMarketMaker on KeyError
get_market_maker_class(name) ==
    IF name \in ModuleGlobals THEN name ELSE "SimpleMarketMaker"

\* the objects of ModuleGlobals a call without arguments constructs an instance of
Instantiable == {"ABC", "SimpleMarketMaker"}

\* the classes whose instances have a make_market method
HasMakeMarket == {"SimpleMarketMaker"}

(***************************************************************************)
(* game.py                                                                 *)
(***************************************************************************)
BUFFER == <<1, 1000>>

NEGATIVE_PNL_PENALTY == 10

CONSECUTIVE_POSITIVE_BONUS == 5

NoValue == <<>>

TradeResult(type, p, q) == [trade_type |-> type, price |-> p, quantity |-> q]

\* simulate_trades with "if" for "elif": the sell is checked even after a buy
simulate_trades_BothSides(mp, b, a, rnd, choice) ==
    LET buy  == IF LeqProduct(mp, b, RAdd(ONE, BUFFER))
                THEN <<TradeResult("buy", b, 1)>> ELSE <<>>
        sell == IF ProductLeq(a, RSub(ONE, BUFFER), mp)
                THEN <<TradeResult("sell", a, 1)>> ELSE <<>>
        extra == IF rnd
                 THEN (IF choice THEN <<TradeResult("buy", b, 1)>>
                                 ELSE <<TradeResult("sell", a, 1)>>)
                 ELSE <<>>
    IN  buy \o sell \o extra

\* Game.simulate_trades; rnd is random.random() < 0.1, choice is random.choice([True, False])
Game_simulate_trades(mp, b, a, rnd, choice) ==
    LET det == IF LeqProduct(mp, b, RAdd(ONE, BUFFER))
               THEN <<TradeResult("buy", b, 1)>>
               ELSE IF ProductLeq(a, RSub(ONE, BUFFER), mp)
                    THEN <<TradeResult("sell", a, 1)>>
                    ELSE <<>>
        extra == IF rnd
                 THEN (IF choice THEN <<TradeResult("buy", b, 1)>>
                                 ELSE <<TradeResult("sell", a, 1)>>)
                 ELSE <<>>
    IN  det \o extra

\* Game.calculate_daily_pnl: the loop over the trades from index i, acc the running sum
RECURSIVE PnlLoop(_, _, _, _)
PnlLoop(ts, mp, i, acc) ==
    IF i > Len(ts) THEN acc
    ELSE PnlLoop(ts, mp, i + 1,
                 IF ts[i].trade_type = "buy"
                 THEN RAdd(acc, RSub(mp, ts[i].price))
                 ELSE RAdd(acc, RSub(ts[i].price, mp)))

\* the loop with the sell branch computed like the buy branch
RECURSIVE PnlLoopSellAsBuy(_, _, _, _)
PnlLoopSellAsBuy(ts, mp, i, acc) ==
    IF i > Len(ts) THEN acc
    ELSE PnlLoopSellAsBuy(ts, mp, i + 1, RAdd(acc, RSub(mp, ts[i].price)))

calculate_daily_pnl_SellAsBuy(ts, mp) == PnlLoopSellAsBuy(ts, mp, 1, ZERO)

Game_calculate_daily_pnl(ts, mp) == PnlLoop(ts, mp, 1, ZERO)

\* a DayRecord: the tuple log_daily_results appends
DayRecord(d, b, a, pnl, name) == <<d, b, a, pnl, name>>

PnlOf(rec) == rec[4]

\* Game.get_max_consecutive_positive_days: the loop from index i
RECURSIVE StreakLoop(_, _, _, _)
StreakLoop(log, i, max_streak, current_streak) ==
    IF i > Len(log) THEN max_streak
    ELSE IF RLt(ZERO, PnlOf(log[i]))
         THEN StreakLoop(log, i + 1,
                         IF max_streak < current_streak + 1 THEN current_streak + 1
                                                            ELSE max_streak,
                         current_streak + 1)
         ELSE StreakLoop(log, i + 1, max_streak, 0)

\* the loop with "pnl >= 0" for "pnl > 0"
RECURSIVE StreakLoopNonNegative(_, _, _, _)
StreakLoopNonNegative(log, i, max_streak, current_streak) ==
    IF i > Len(log) THEN max_streak
    ELSE IF RLeq(ZERO, PnlOf(log[i]))
         THEN StreakLoopNonNegative(log, i + 1,
                         IF max_streak < current_streak + 1 THEN current_streak + 1
                                                            ELSE max_streak,
                         current_streak + 1)
         ELSE StreakLoopNonNegative(log, i + 1, max_streak, 0)

get_max_consecutive_NonNegative(log) == StreakLoopNonNegative(log, 1, 0, 0)

Game_get_max_consecutive_positive_days(log) == StreakLoop(log, 1, 0, 0)

\* Game.calculate_score: the count of records with pnl < 0
NegativePnlDays(log) == Cardinality({i \in 1..Len(log) : RLt(PnlOf(log[i]), ZERO)})

\* the score with the penalty taken for every day that is not positive
calculate_score_PenaltyNonPositive(total, log) ==
    LET n  == Cardinality({i \in 1..Len(log) : RLeq(PnlOf(log[i]), ZERO)})
        s1 == RSub(total, RInt(n * NEGATIVE_PNL_PENALTY))
        s2 == RAdd(s1, RInt(Game_get_max_consecutive_positive_days(log)
                            * CONSECUTIVE_POSITIVE_BONUS))
    IN  PyMax(ZERO, s2)

Game_calculate_score(total, log) ==
    LET s1 == RSub(total, RInt(NegativePnlDays(log) * NEGATIVE_PNL_PENALTY))
        s2 == RAdd(s1, RInt(Game_get_max_consecutive_positive_days(log)
                            * CONSECUTIVE_POSITIVE_BONUS))
    IN  PyMax(ZERO, s2)

(***************************************************************************)
(* main.py: strategy selection by name.                                    *)
(***************************************************************************)
\* main, line 49
Main_Resolve ==
    /\ pc = "main"
    /\ market_maker_class' = get_market_maker_class(class_name)
    /\ pc' = "instantiate"
    /\ UNCHANGED <<marketVars, calls, runVars, dayVars, class_name, market_maker,
                   spread_multiplier>>

\* main, lines 50-56: MarketMakerClass() raises TypeError for what no call constructs
Main_Instantiate ==
    /\ pc = "instantiate"
    /\ IF market_maker_class \in Instantiable
       THEN /\ market_maker' = market_maker_class
            /\ pc' = "run"
       ELSE /\ market_maker' = market_maker
            /\ pc' = "TypeError"
    /\ UNCHANGED <<marketVars, calls, runVars, dayVars, class_name, market_maker_class,
                   spread_multiplier>>

(***************************************************************************)
(* game.py: Game.run and Game.simulate_day, one action per statement.      *)
(***************************************************************************)
\* Game.run: entering the loop
Run_Start ==
    /\ pc = "run"
    /\ IF days >= 1
       THEN day' = 1 /\ pc' = "update"
       ELSE day' = day /\ pc' = "score"
    /\ UNCHANGED <<marketVars, calls, days, total_pnl, daily_results, score, score_calls,
                   dayVars, makerVars>>

\* simulate_day: self.market.update()
SimulateDay_Update(returns) ==
    /\ pc = "update"
    /\ \E r \in returns : Market_update(r)
    /\ pc' = "challenge"
    /\ UNCHANGED <<calls, runVars, dayVars, makerVars>>

\* simulate_day: self.challenge_manager.apply_challenge(price, volatility)
SimulateDay_Challenge ==
    /\ pc = "challenge"
    /\ \E i \in 1..Len(Challenges), u \in UniformPrice, w \in UniformVolatility :
          LET eff == ChallengeEffect(Challenges[i], price, volatility, u, w)
          IN  /\ challenge' = Challenges[i]
              /\ new_price' = eff[1]
              /\ new_volatility' = eff[2]
    /\ ch_price' = price
    /\ ch_volatility' = volatility
    /\ pc' = "perturb"
    /\ UNCHANGED <<marketVars, calls, runVars, bid, ask, trades, market_price, daily_pnl,
                   makerVars>>

\* the challenge's target values passed as if they were factors
SimulateDay_PerturbAbsolute ==
    /\ pc = "perturb"
    /\ Market_apply_challenge(new_price, new_volatility)
    /\ pc' = "quote"
    /\ UNCHANGED <<calls, runVars, dayVars, makerVars>>

\* simulate_day: self.market.apply_challenge(new_price / price, new_volatility / volatility)
SimulateDay_Perturb ==
    /\ pc = "perturb"
    /\ Market_apply_challenge(RDiv(new_price, price), RDiv(new_volatility, volatility))
    /\ pc' = "quote"
    /\ UNCHANGED <<calls, runVars, dayVars, makerVars>>

\* the quote taken of the state the challenge was drawn for, not of the state
\* apply_challenge left
SimulateDay_QuoteStale ==
    /\ pc = "quote"
    /\ IF market_maker \in HasMakeMarket
       THEN LET q == SimpleMarketMaker_make_market(ch_price, ch_volatility, spread_multiplier)
            IN  bid' = q[1] /\ ask' = q[2] /\ pc' = "trades"
       ELSE bid' = bid /\ ask' = ask /\ pc' = "AttributeError"
    /\ UNCHANGED <<marketVars, calls, runVars, ch_price, ch_volatility, new_price,
                   new_volatility, challenge, trades, market_price, daily_pnl, makerVars>>

\* simulate_day: self.market_maker.make_market(price, volatility)
SimulateDay_Quote ==
    /\ pc = "quote"
    /\ IF market_maker \in HasMakeMarket
       THEN LET q == SimpleMarketMaker_make_market(price, volatility, spread_multiplier)
            IN  bid' = q[1] /\ ask' = q[2] /\ pc' = "trades"
       ELSE bid' = bid /\ ask' = ask /\ pc' = "AttributeError"
    /\ UNCHANGED <<marketVars, calls, runVars, ch_price, ch_volatility, new_price,
                   new_volatility, challenge, trades, market_price, daily_pnl, makerVars>>

\* simulate_day: self.simulate_trades(bid, ask)
SimulateDay_Trades ==
    /\ pc = "trades"
    /\ \E rnd \in BOOLEAN, choice \in BOOLEAN :
          trades' = Game_simulate_trades(price, bid, ask, rnd, choice)
    /\ market_price' = price
    /\ pc' = "pnl"
    /\ UNCHANGED <<marketVars, calls, runVars, ch_price, ch_volatility, new_price,
                   new_volatility, challenge, bid, ask, daily_pnl, makerVars>>

\* simulate_day: self.calculate_daily_pnl(trades)
SimulateDay_Pnl ==
    /\ pc = "pnl"
    /\ daily_pnl' = Game_calculate_daily_pnl(trades, price)
    /\ pc' = "record"
    /\ UNCHANGED <<marketVars, calls, runVars, ch_price, ch_volatility, new_price,
                   new_volatility, challenge, bid, ask, trades, market_price, makerVars>>

\* simulate_day: self.log_daily_results(day, bid, ask, daily_pnl, challenge.name)
SimulateDay_Record ==
    /\ pc = "record"
    /\ daily_results' = Append(daily_results, DayRecord(day, bid, ask, daily_pnl, challenge))
    /\ pc' = "return"
    /\ UNCHANGED <<marketVars, calls, days, day, total_pnl, score, score_calls, dayVars,
                   makerVars>>

\* the loop over range(1, self.days): it ends one day early
Run_AccumulateOffByOne ==
    /\ pc = "return"
    /\ total_pnl' = RAdd(total_pnl, daily_pnl)
    /\ IF day + 1 < days
       THEN day' = day + 1 /\ pc' = "update"
       ELSE day' = day /\ pc' = "score"
    /\ UNCHANGED <<marketVars, calls, days, daily_results, score, score_calls, dayVars,
                   makerVars>>

\* Game.run: self.total_pnl += daily_pnl, and the next iteration or the end of the loop
Run_Accumulate ==
    /\ pc = "return"
    /\ total_pnl' = RAdd(total_pnl, daily_pnl)
    /\ IF day < days
       THEN day' = day + 1 /\ pc' = "update"
       ELSE day' = day /\ pc' = "score"
    /\ UNCHANGED <<marketVars, calls, days, daily_results, score, score_calls, dayVars,
                   makerVars>>

\* Game.run: return self.calculate_score()
Run_Score ==
    /\ pc = "score"
    /\ score' = Game_calculate_score(total_pnl, daily_results)
    /\ score_calls' = score_calls + 1
    /\ pc' = "done"
    /\ UNCHANGED <<marketVars, calls, days, day, total_pnl, daily_results, dayVars,
                   makerVars>>

(***************************************************************************)
(* Spec: Game.run on the Market, ChallengeManager and SimpleMarketMaker    *)
(* main constructs.                                                        *)
(***************************************************************************)
MaxDays == 2

\* returns drawn in a run: exp(-1) is clamped to 0.5, exp(800) overflows.
\* random.gauss is taken to draw any of them whatever the volatility.
GameReturns == {<<-1, 1>>, <<0, 1>>, <<800, 1>>}

MarketInit(p, v) ==
    /\ price = p
    /\ volatility = v
    /\ mday = 0
    /\ daily_return = ZERO
    /\ price_factor = ONE
    /\ volatility_factor = ONE
    /\ calls = 0

GameInitAt(n, d) ==
    /\ days = n
    /\ day = d
    /\ total_pnl = ZERO
    /\ daily_results = <<>>
    /\ score = NoValue
    /\ score_calls = 0

GameInit(n) == GameInitAt(n, 0)

DayInit ==
    /\ ch_price = NoValue
    /\ ch_volatility = NoValue
    /\ new_price = NoValue
    /\ new_volatility = NoValue
    /\ challenge = ""
    /\ bid = NoValue
    /\ ask = NoValue
    /\ trades = <<>>
    /\ market_price = NoValue
    /\ daily_pnl = ZERO

MakerInit(name, cls, obj) ==
    /\ class_name = name
    /\ market_maker_class = cls
    /\ market_maker = obj
    /\ spread_multiplier = DEFAULT_SPREAD_MULTIPLIER

Init ==
    /\ MarketInit(INITIAL_PRICE, INITIAL_VOLATILITY)
    /\ \E n \in 0..MaxDays : GameInit(n)
    /\ DayInit
    /\ MakerInit("SimpleMarketMaker", "SimpleMarketMaker", "SimpleMarketMaker")
    /\ pc = "run"

GameUpdate == SimulateDay_Update(GameReturns)

Next ==
    \/ Run_Start
    \/ GameUpdate
    \/ SimulateDay_Challenge
    \/ SimulateDay_Perturb
    \/ SimulateDay_Quote
    \/ SimulateDay_Trades
    \/ SimulateDay_Pnl
    \/ SimulateDay_Record
    \/ Run_Accumulate
    \/ Run_Score

Spec == Init /\ [][Next]_vars

\* the number of records the log holds at each point of the run
RecordedDays ==
    CASE pc = "run" -> 0
      [] pc \in {"update", "challenge", "perturb", "quote", "trades", "pnl", "record"} -> day - 1
      [] pc = "return" -> day
      [] pc \in {"score", "done"} -> days

\* C8: during run() over N days the log is append-only and gets exactly one
\* record per simulated day, in day order: its day fields are 1, 2, ..., k at
\* every point, without early termination; when run() returns k = N and the
\* Score has been computed exactly once, after the last day.
C8_LogPerDay ==
    /\ [](/\ \A i \in 1..Len(daily_results) : daily_results[i][1] = i
          /\ Len(daily_results) = RecordedDays
          /\ pc = "done" => Len(daily_results) = days /\ score_calls = 1 /\ score # NoValue
          /\ pc # "done" => score_calls = 0 /\ score = NoValue)
    /\ [][/\ Len(daily_results') \in {Len(daily_results), Len(daily_results) + 1}
          /\ SubSeq(daily_results', 1, Len(daily_results)) = daily_results]_vars

\* a run of at least two days has returned: the log holds days 1..N and the
\* score was computed once
C8_Witness ==
    /\ pc = "done"
    /\ days >= 2
    /\ Len(daily_results) = days
    /\ daily_results[days][1] = days
    /\ score_calls = 1

\* what the catalog's challenge name does to (p, v): the set of (p', v') allowed
EffectMatches(name, p, v, p2, v2) ==
    CASE name = "Volatility Spike" -> p2 = p /\ v2 = RMul(v, <<2, 1>>)
      [] name = "Market Crash"     -> p2 = RMul(p, <<4, 5>>) /\ v2 = RMul(v, <<3, 2>>)
      [] name = "Bull Run"         -> p2 = RMul(p, <<6, 5>>) /\ v2 = RMul(v, <<6, 5>>)
      [] name = "Calm Markets"     -> p2 = p /\ v2 = RMul(v, <<1, 2>>)
      [] name = "Economic News"    ->
            /\ RLeq(RMul(p, <<9, 10>>), p2) /\ RLeq(p2, RMul(p, <<11, 10>>))
            /\ RLeq(RMul(v, <<4, 5>>), v2) /\ RLeq(v2, RMul(v, <<6, 5>>))
      [] OTHER -> FALSE

MaxUpdates == 3

MaxCalls == 2

\* returns random.gauss may draw, whatever the volatility
DailyReturns == {<<-800, 1>>, <<-1, 1>>, <<-1, 10>>, <<0, 1>>, <<1, 10>>, <<1, 1>>, <<800, 1>>}

\* factors a caller may pass to apply_challenge
AnyFactors == {<<-1, 1>>, <<0, 1>>, <<1, 100>>, <<1, 1>>, <<3, 2>>}

MarketStarts == {<<INITIAL_PRICE, INITIAL_VOLATILITY>>, <<PRICE_FLOOR, VOLATILITY_FLOOR>>}

InitMarket ==
    /\ \E s \in MarketStarts : MarketInit(s[1], s[2])
    /\ GameInit(0)
    /\ DayInit
    /\ MakerInit("SimpleMarketMaker", "SimpleMarketMaker", "SimpleMarketMaker")
    /\ pc = "market"

MarketUpdate ==
    /\ mday < MaxUpdates
    /\ \E r \in DailyReturns : Market_update(r)
    /\ UNCHANGED <<calls, pc, runVars, dayVars, makerVars>>

MarketApplyChallenge ==
    /\ calls < MaxCalls
    /\ \E pf \in AnyFactors, vf \in AnyFactors : Market_apply_challenge(pf, vf)
    /\ calls' = calls + 1
    /\ UNCHANGED <<pc, runVars, dayVars, makerVars>>

NextMarket == MarketUpdate \/ MarketApplyChallenge

SpecMarket == InitMarket /\ [][NextMarket]_vars

\* C1: a Market created with price >= 0.01 and volatility >= 0.001 keeps
\* price >= 0.01 and volatility >= 0.001 in every state reached by update() and
\* apply_challenge() calls, whatever the factors (0 and negative ones included).
C1_FloorsHold ==
    /\ RLeq(<<1, 100>>, price)
    /\ RLeq(<<1, 1000>>, volatility)

\* apply_challenge was last called with a negative price factor and a zero
\* volatility factor, after an update, and both values sit on their floors
C1_Witness ==
    /\ calls > 0
    /\ mday > 0
    /\ price_factor[1] < 0
    /\ volatility_factor = ZERO
    /\ price = <<1, 100>>
    /\ volatility = <<1, 1000>>

\* C2: every update() leaves volatility unchanged and sets price to
\* max(0.01, old_price * f) for some f in [0.5, 2.0]; when math.exp overflows,
\* f is 2.0 for a positive return and 0.5 otherwise.
C2_UpdateClamped ==
    [][mday' = mday + 1 =>
        /\ volatility' = volatility
        /\ \E f \in {RDiv(price', price), <<1, 2>>} :
              /\ RLeq(<<1, 2>>, f)
              /\ RLeq(f, <<2, 1>>)
              /\ price' = PyMax(<<1, 100>>, RMul(price, f))
        /\ RLt(<<709, 1>>, daily_return') =>
              price' = PyMax(<<1, 100>>,
                             RMul(price, IF daily_return'[1] > 0 THEN <<2, 1>> ELSE <<1, 2>>))
    ]_vars

\* the first update of the configured market drew a return that overflows
\* math.exp, and the price doubled
C2_Witness ==
    /\ mday = 1
    /\ calls = 0
    /\ RLt(<<709, 1>>, daily_return)
    /\ volatility = INITIAL_VOLATILITY
    /\ price = <<200, 1>>


(***************************************************************************)
(* SpecQuote: SimpleMarketMaker.make_market, default spread multiplier, on *)
(* any market state with price > 0 and volatility > 0.                     *)
(***************************************************************************)
MaxQuoteN == 5

QuotePrices ==
    {Rat(n, 200) : n \in 1..MaxQuoteN} \cup {RInt(n) : n \in 1..MaxQuoteN} \cup {INITIAL_PRICE}

QuoteVolatilities ==
    {Rat(n, 1000) : n \in 1..MaxQuoteN} \cup {Rat(n, 50) : n \in 1..MaxQuoteN}
        \cup {RInt(5 * n) : n \in 1..MaxQuoteN}

InitQuote ==
    /\ \E p \in QuotePrices, v \in QuoteVolatilities : MarketInit(p, v)
    /\ GameInit(1)
    /\ DayInit
    /\ MakerInit("SimpleMarketMaker", "SimpleMarketMaker", "SimpleMarketMaker")
    /\ pc = "quote"

NextQuote == SimulateDay_Quote

SpecQuote == InitQuote /\ [][NextQuote]_vars

\* C3 as stated: for every price > 0 and volatility > 0 the quote has
\* bid <= ask and bid >= 0.01.
C3_Original ==
    pc = "trades" => RLeq(bid, ask) /\ RLeq(<<1, 100>>, bid)

\* C3 as amended: for every price >= 0.01 and volatility > 0 the quote has
\* bid <= ask and bid >= 0.01; for every price > 0 it has bid >= 0.01.
C3_QuoteOrdered ==
    pc = "trades" =>
        /\ RLeq(<<1, 100>>, bid)
        /\ RLeq(<<1, 100>>, price) => RLeq(bid, ask)

\* a quote of a price >= 0.01 whose bid was floored: the spread exceeds the price
C3_Witness ==
    /\ pc = "trades"
    /\ RLeq(<<1, 100>>, price)
    /\ RLt(price, RMul(RMul(price, volatility), <<1, 10>>))
    /\ bid = <<1, 100>>
    /\ RLt(bid, ask)

(***************************************************************************)
(* SpecScore: Game.run over days whose P&L is arbitrary (any strategy, any *)
(* market): the log, the running total and the score.                      *)
(***************************************************************************)
MaxLog == 4

AnyPnl == {<<-3, 2>>, <<-1, 1>>, <<0, 1>>, <<1, 2>>, <<2, 1>>}

InitScore ==
    /\ MarketInit(INITIAL_PRICE, INITIAL_VOLATILITY)
    /\ \E n \in 0..MaxLog : GameInit(n)
    /\ DayInit
    /\ MakerInit("SimpleMarketMaker", "SimpleMarketMaker", "SimpleMarketMaker")
    /\ pc = "run"

\* simulate_day up to calculate_daily_pnl, kept only by the P&L it computes
AnyDay ==
    /\ pc = "update"
    /\ \E x \in AnyPnl : daily_pnl' = x
    /\ pc' = "record"
    /\ UNCHANGED <<marketVars, calls, runVars, ch_price, ch_volatility, new_price,
                   new_volatility, challenge, bid, ask, trades, market_price, makerVars>>

NextScore ==
    \/ Run_Start
    \/ AnyDay
    \/ SimulateDay_Record
    \/ Run_Accumulate
    \/ Run_Score

SpecScore == InitScore /\ [][NextScore]_vars

\* the sum of the pnl fields of a log
RECURSIVE SumPnl(_)
SumPnl(log) == IF log = <<>> THEN ZERO ELSE RAdd(SumPnl(Tail(log)), PnlOf(Head(log)))

\* the length of the longest contiguous block of records with pnl > 0
LongestPositiveBlock(log) ==
    LET blocks == {<<i, j>> \in (1..Len(log)) \X (1..Len(log)) :
                      i <= j /\ \A k \in i..j : log[k][4][1] > 0}
        lengths == {b[2] - b[1] + 1 : b \in blocks} \cup {0}
    IN  CHOOSE m \in lengths : \A n \in lengths : n <= m

\* C4: the Score run() returns is max(0, T - 10*N + 5*L), T the sum of the
\* recorded pnl, N the number of records with pnl < 0, L the longest run of
\* consecutive records with pnl > 0; it is never negative.
C4_ScoreFormula ==
    pc = "done" =>
        LET T == SumPnl(daily_results)
            N == Cardinality({i \in 1..Len(daily_results) : daily_results[i][4][1] < 0})
            L == LongestPositiveBlock(daily_results)
            raw == RAdd(RSub(T, RInt(10 * N)), RInt(5 * L))
        IN  /\ score = IF raw[1] < 0 THEN ZERO ELSE raw
            /\ score[1] >= 0

\* a finished run with a losing day, a day of pnl 0 and a winning streak, whose
\* score is positive
C4_Witness ==
    /\ pc = "done"
    /\ \E i \in 1..Len(daily_results) : daily_results[i][4][1] < 0
    /\ \E i \in 1..Len(daily_results) : daily_results[i][4][1] = 0
    /\ LongestPositiveBlock(daily_results) >= 2
    /\ score[1] > 0

\* C5: get_max_consecutive_positive_days returns the length of the longest
\* contiguous block of records with pnl > 0 (0 when there is none); a record
\* with pnl = 0 or pnl < 0 ends the block.
C5_LongestStreak ==
    Game_get_max_consecutive_positive_days(daily_results)
        = LongestPositiveBlock(daily_results)

\* a log with two positive days, then a day of pnl 0, then a positive day:
\* the streak is 2, not 4
C5_Witness ==
    /\ Len(daily_results) = 4
    /\ daily_results[1][4][1] > 0
    /\ daily_results[2][4][1] > 0
    /\ daily_results[3][4][1] = 0
    /\ daily_results[4][4][1] > 0
    /\ Game_get_max_consecutive_positive_days(daily_results) = 2

(***************************************************************************)
(* SpecTrades: the rest of a day from simulate_trades on, for any market   *)
(* price and any quote (any strategy): the trades, the P&L, the record.    *)
(***************************************************************************)
TradePrices ==
    {<<99, 1>>, <<1981, 20>>, <<991, 10>>, <<100, 1>>, <<1009, 10>>, <<101, 1>>, <<102, 1>>}

TradeBids == {<<98, 1>>, <<99, 1>>, <<100, 1>>, <<101, 1>>}

TradeAsks == {<<99, 1>>, <<100, 1>>, <<101, 1>>, <<102, 1>>}

InitTrades ==
    /\ \E p \in TradePrices : MarketInit(p, INITIAL_VOLATILITY)
    /\ GameInitAt(1, 1)
    /\ ch_price = NoValue
    /\ ch_volatility = NoValue
    /\ new_price = NoValue
    /\ new_volatility = NoValue
    /\ challenge = "Calm Markets"
    /\ \E b \in TradeBids, a \in TradeAsks : bid = b /\ ask = a
    /\ trades = <<>>
    /\ market_price = NoValue
    /\ daily_pnl = ZERO
    /\ MakerInit("SimpleMarketMaker", "SimpleMarketMaker", "SimpleMarketMaker")
    /\ pc = "trades"

NextTrades ==
    \/ SimulateDay_Trades
    \/ SimulateDay_Pnl
    \/ SimulateDay_Record
    \/ Run_Accumulate
    \/ Run_Score

SpecTrades == InitTrades /\ [][NextTrades]_vars

\* the deterministic trade of the claim: a buy at bid if price <= bid * 1.001,
\* otherwise a sell at ask if price >= ask * 0.999, otherwise none
DeterministicTrade(mp, b, a) ==
    IF RLeq(mp, RMul(b, <<1001, 1000>>))
    THEN <<[trade_type |-> "buy", price |-> b, quantity |-> 1]>>
    ELSE IF RLeq(RMul(a, <<999, 1000>>), mp)
         THEN <<[trade_type |-> "sell", price |-> a, quantity |-> 1]>>
         ELSE <<>>

\* the random trade of the claim: none, a buy at bid, or a sell at ask
RandomTrades(b, a) ==
    {<<>>, <<[trade_type |-> "buy", price |-> b, quantity |-> 1]>>,
           <<[trade_type |-> "sell", price |-> a, quantity |-> 1]>>}

\* C6: simulate_trades returns zero, one or two unit trades: first the
\* deterministic trade (a buy at bid if price <= bid*1.001, otherwise a sell at
\* ask if price >= ask*0.999, never both), then at most one random trade, a buy
\* at bid or a sell at ask, whether or not the deterministic trade fired.
C6_TradeRule ==
    pc \in {"pnl", "record", "return", "score", "done"} =>
        /\ Len(trades) <= 2
        /\ \A i \in 1..Len(trades) : trades[i].quantity = 1
        /\ \E extra \in RandomTrades(bid, ask) :
              trades = DeterministicTrade(market_price, bid, ask) \o extra

\* the spec's example (bid 99, ask 101, price 99.05): a deterministic buy at
\* 99, followed here by a random sell at 101
C6_Witness ==
    /\ pc = "pnl"
    /\ bid = <<99, 1>>
    /\ ask = <<101, 1>>
    /\ market_price = <<1981, 20>>
    /\ Len(trades) = 2
    /\ trades[1] = [trade_type |-> "buy", price |-> <<99, 1>>, quantity |-> 1]
    /\ trades[2] = [trade_type |-> "sell", price |-> <<101, 1>>, quantity |-> 1]

\* what one trade earns against the market price mp
TradeGain(t, mp) ==
    IF t.trade_type = "buy" THEN RSub(mp, t.price) ELSE RSub(t.price, mp)

\* C7: the pnl recorded for a day is the sum over the day's trades of
\* (market_price - trade_price) for a buy and (trade_price - market_price) for
\* a sell, market_price being the price the trades were generated at; 0 when
\* there is no trade.
C7_DailyPnl ==
    pc \in {"return", "score", "done"} =>
        daily_results[Len(daily_results)][4] =
            CASE Len(trades) = 0 -> ZERO
              [] Len(trades) = 1 -> TradeGain(trades[1], market_price)
              [] Len(trades) = 2 -> RAdd(TradeGain(trades[1], market_price),
                                         TradeGain(trades[2], market_price))

\* a recorded day with a losing buy (bid above the price) and a winning sell
C7_Witness ==
    /\ pc = "return"
    /\ Len(trades) = 2
    /\ trades[1].trade_type = "buy"
    /\ RLt(market_price, trades[1].price)
    /\ trades[2].trade_type = "sell"
    /\ RLt(market_price, trades[2].price)
    /\ daily_results[Len(daily_results)][4] # ZERO

(***************************************************************************)
(* SpecMain: main() for any strategy name, then a one-day run.             *)
(***************************************************************************)
ClassNames == ModuleGlobals \cup {"NoSuchMarketMaker", ""}

NoObject == ""

InitMain ==
    /\ MarketInit(INITIAL_PRICE, INITIAL_VOLATILITY)
    /\ GameInit(1)
    /\ DayInit
    /\ \E name \in ClassNames : MakerInit(name, NoObject, NoObject)
    /\ pc = "main"

NextMain ==
    \/ Main_Resolve
    \/ Main_Instantiate
    \/ Next

SpecMain == InitMain /\ [][NextMain]_vars

\* C9: strategy selection by name never fails the run: for every name that
\* does not name a QuotingStrategy variant, get_market_maker_class returns
\* SimpleMarketMaker, so the class returned can be instantiated and asked for
\* quotes.
C9_FallbackToDefault ==
    /\ (pc # "main" /\ class_name # "SimpleMarketMaker") =>
          market_maker_class = "SimpleMarketMaker"
    /\ pc \notin {"TypeError", "AttributeError"}

(***************************************************************************)
(* The order of a day's steps, under Spec.                                 *)
(***************************************************************************)
\* the steps of run() and simulate_day() in their order
StepOrder ==
    {<<"run", "update">>, <<"run", "score">>, <<"update", "challenge">>,
     <<"challenge", "perturb">>, <<"perturb", "quote">>, <<"quote", "trades">>,
     <<"trades", "pnl">>, <<"pnl", "record">>, <<"record", "return">>,
     <<"return", "update">>, <<"return", "score">>, <<"score", "done">>}

\* the sum of what the day's trades earn against the price mp
RECURSIVE SumGains(_, _)
SumGains(ts, mp) ==
    IF ts = <<>> THEN ZERO ELSE RAdd(SumGains(Tail(ts), mp), TradeGain(Head(ts), mp))

\* C11: a day's steps run in the order update, challenge perturbation, quote,
\* trade simulation, P&L, record; the bid and ask of the DayRecord are the
\* strategy's quote of the post-challenge (price, volatility), and the market
\* is not mutated between the quote and the P&L, so the quote, the trade
\* trigger and the P&L use the same post-challenge price.
C11_DayOrder ==
    /\ [](pc \in {"trades", "pnl", "record", "return"} =>
            LET spread == RMul(RMul(price, volatility), <<1, 10>>)
            IN  /\ price = PyMax(<<1, 100>>, new_price)
                /\ volatility = PyMax(<<1, 1000>>, new_volatility)
                /\ bid = PyMax(<<1, 100>>, RSub(price, spread))
                /\ ask = RAdd(price, spread))
    /\ [](pc \in {"pnl", "record", "return"} => market_price = price)
    /\ [](pc \in {"record", "return"} => daily_pnl = SumGains(trades, price))
    /\ [](pc = "return" =>
            /\ daily_results[Len(daily_results)][2] = bid
            /\ daily_results[Len(daily_results)][3] = ask
            /\ daily_results[Len(daily_results)][4] = daily_pnl)
    /\ [][/\ pc' # pc => <<pc, pc'>> \in StepOrder
          /\ pc = "update" => mday' = mday + 1
          /\ pc \in {"quote", "trades", "pnl", "record"} =>
                price' = price /\ volatility' = volatility]_vars

\* the second day is recorded after a Bull Run moved the price: the record's
\* bid and ask straddle the post-challenge price, which differs from the price
\* update() left, and a trade against that price made the day's pnl positive
C11_Witness ==
    /\ pc = "return"
    /\ day = 2
    /\ challenge = "Bull Run"
    /\ price # ch_price
    /\ RLt(daily_results[2][2], price)
    /\ RLt(price, daily_results[2][3])
    /\ market_price = price
    /\ daily_results[2][4][1] > 0

(***************************************************************************)
(* SpecSpread: runs of a SimpleMarketMaker(spread_multiplier) with any     *)
(* non-negative multiplier, on a market started on or above its floors.    *)
(***************************************************************************)
\* SimpleMarketMaker(spread_multiplier): no spread, the default, a spread of
\* price * volatility, and one wide enough to floor the bid
SpreadMultipliers == {ZERO, DEFAULT_SPREAD_MULTIPLIER, ONE, <<60, 1>>}

\* returns drawn in these runs: exp(-1) is clamped to 0.5, exp(0) = 1
SpreadReturns == {<<-1, 1>>, <<0, 1>>}

\* Market(initial_price, initial_volatility): the configured start, and a
\* start on the price floor
SpreadStarts == {<<INITIAL_PRICE, INITIAL_VOLATILITY>>, <<PRICE_FLOOR, <<100, 1>>>>}

InitSpread ==
    /\ \E m \in SpreadStarts : MarketInit(m[1], m[2])
    /\ \E n \in 0..MaxDays : GameInit(n)
    /\ DayInit
    /\ class_name = "SimpleMarketMaker"
    /\ market_maker_class = "SimpleMarketMaker"
    /\ market_maker = "SimpleMarketMaker"
    /\ spread_multiplier \in SpreadMultipliers
    /\ pc = "run"

SpreadUpdate == SimulateDay_Update(SpreadReturns)

NextSpread ==
    \/ Run_Start
    \/ SpreadUpdate
    \/ SimulateDay_Challenge
    \/ SimulateDay_Perturb
    \/ SimulateDay_Quote
    \/ SimulateDay_Trades
    \/ SimulateDay_Pnl
    \/ SimulateDay_Record
    \/ Run_Accumulate
    \/ Run_Score

SpecSpread == InitSpread /\ [][NextSpread]_vars

\* C12: with SimpleMarketMaker, a non-negative spread multiplier and a market
\* started at price >= 0.01 and volatility >= 0.001, every DayRecord has
\* pnl >= 0 (every buy earns price - bid >= 0, every sell ask - price >= 0),
\* the count of negative-pnl days is 0, and the Score returned is
\* total P&L + 5 * longest positive streak.
C12_NoNegativeDay ==
    /\ \A i \in 1..Len(daily_results) : RLeq(ZERO, daily_results[i][4])
    /\ Cardinality({i \in 1..Len(daily_results) :
                        RLt(daily_results[i][4], ZERO)}) = 0
    /\ pc \in {"pnl", "record", "return"} =>
          \A i \in 1..Len(trades) :
              IF trades[i].trade_type = "buy"
              THEN RLeq(trades[i].price, market_price)
              ELSE RLeq(market_price, trades[i].price)
    /\ pc = "done" =>
          score = RAdd(SumPnl(daily_results),
                       RInt(5 * LongestPositiveBlock(daily_results)))

\* a finished two-day run of a non-default multiplier with a day that earned
\* nothing and a day that earned something on a bid held at the floor, scored
\* above its total P&L
C12_Witness ==
    /\ pc = "done"
    /\ spread_multiplier # DEFAULT_SPREAD_MULTIPLIER
    /\ Len(daily_results) = 2
    /\ \E i \in 1..2 : daily_results[i][4] = ZERO
    /\ \E i \in 1..2 : /\ RLt(ZERO, daily_results[i][4])
                       /\ daily_results[i][2] = PRICE_FLOOR
    /\ RLt(SumPnl(daily_results), score)
=============================================================================
